---- MODULE Spec2Model ----
(***************************************************************************)
(* Federation transport server base: the Authenticator                     *)
(* (authenticate_request, reset_retry_timings, _parse_auth_header) and the *)
(* servlet wrapper BaseFederationServlet._wrap.new_func, as a state        *)
(* machine.  Strings are sequences of one-character strings, so that the   *)
(* unquoting done by the header parser is computed and not assumed.        *)
(***************************************************************************)
EXTENDS Integers, Sequences, FiniteSets, TLC

\* Longest list of Authorization header values a request of the parsing
\* workload carries.
MaxHeaders == 2

\* Python's None, a value no string equals.
None == <<"None">>

DQ == "\""
BS == "\\"

\* hs.hostname, the local server name; and the server names of the peers.
server_name == <<"m">>
OriginA == <<"a">>
OriginB == <<"b">>
WrongServer == <<"w">>

\* Characters a server name is made of (host[:port]).
HostChars == {"a", "b", "m", "w", ".", ":"}

\* synapse.util.stringutils.parse_and_validate_server_name: TRUE when it
\* returns, FALSE when it raises ValueError.
parse_and_validate_server_name(s) ==
    /\ s # <<>>
    /\ \A i \in 1..Len(s) : s[i] \in HostChars

(***************************************************************************)
(* _parse_auth_header.  A header value is [scheme, hasParams, params]:     *)
(* scheme is the text before the first run of spaces, hasParams says       *)
(* whether re.split(" +", header_str) has an element [1], and params is    *)
(* that element split on ",".  A parameter is [k, eq, v]: the text before  *)
(* the first "=", whether there is an "=", and the text after it.          *)
(***************************************************************************)

\* str.lower on the parameter names that occur.
Lower(k) ==
    CASE k = "ORIGIN" -> "origin"
      [] k = "Key" -> "key"
      [] k = "SIG" -> "sig"
      [] k = "Destination" -> "destination"
      [] OTHER -> k

\* re.sub("\\\\(.)", group 1, s): a backslash followed by a character is
\* replaced by that character.
RECURSIVE Unescape(_)
Unescape(s) ==
    IF s = <<>> THEN <<>>
    ELSE IF s[1] = BS /\ Len(s) >= 2
         THEN <<s[2]>> \o Unescape(SubSeq(s, 3, Len(s)))
         ELSE <<s[1]>> \o Unescape(Tail(s))

strip_quotes(value) ==
    IF value # <<>> /\ value[1] = DQ
    THEN Unescape(SubSeq(value, 2, Len(value) - 1))
    ELSE value

\* The dict comprehension {k.lower(): v for k, v in ...}: the keys present.
ParamKeys(params) == {Lower(params[i].k) : i \in 1..Len(params)}

\* param_dict[key]: the value of the last parameter with that key.
ParamValue(params, key) ==
    LET idx == {i \in 1..Len(params) : Lower(params[i].k) = key}
        last == CHOOSE i \in idx : \A j \in idx : j <= i
    IN  params[last].v

\* param_dict.get("destination"), unquoted, or None.
ParamDestination(params) ==
    IF "destination" \in ParamKeys(params)
    THEN strip_quotes(ParamValue(params, "destination"))
    ELSE None

\* TRUE when the try block of _parse_auth_header raises: IndexError (no
\* parameter list), ValueError (a parameter without "=", an invalid server
\* name) or KeyError (origin, key or sig missing).
ParseRaises(h) ==
    \/ ~h.hasParams
    \/ \E i \in 1..Len(h.params) : ~h.params[i].eq
    \/ "origin" \notin ParamKeys(h.params)
    \/ ~parse_and_validate_server_name(strip_quotes(ParamValue(h.params, "origin")))
    \/ "key" \notin ParamKeys(h.params)
    \/ "sig" \notin ParamKeys(h.params)

\* _parse_auth_header reading the signature with param_dict.get("sig"): a
\* header without sig parses, its signature None. The fault C12 rules out.
ParseAuthHeaderSigOptional(h) ==
    IF \/ ~h.hasParams
       \/ \E i \in 1..Len(h.params) : ~h.params[i].eq
       \/ "origin" \notin ParamKeys(h.params)
       \/ ~parse_and_validate_server_name(strip_quotes(ParamValue(h.params, "origin")))
       \/ "key" \notin ParamKeys(h.params)
    THEN [ok |-> FALSE, origin |-> None, key |-> None, sig |-> None,
          destination |-> None]
    ELSE [ok |-> TRUE,
          origin |-> strip_quotes(ParamValue(h.params, "origin")),
          key |-> strip_quotes(ParamValue(h.params, "key")),
          sig |-> IF "sig" \in ParamKeys(h.params)
                  THEN strip_quotes(ParamValue(h.params, "sig")) ELSE None,
          destination |-> ParamDestination(h.params)]

\* The result of _parse_auth_header: ok = FALSE stands for the
\* AuthenticationError (400, "Malformed Authorization header") it raises.
_parse_auth_header(h) ==
    IF ParseRaises(h)
    THEN [ok |-> FALSE, origin |-> None, key |-> None, sig |-> None,
          destination |-> None]
    ELSE [ok |-> TRUE,
          origin |-> strip_quotes(ParamValue(h.params, "origin")),
          key |-> strip_quotes(ParamValue(h.params, "key")),
          sig |-> strip_quotes(ParamValue(h.params, "sig")),
          destination |-> ParamDestination(h.params)]

(***************************************************************************)
(* The errors authenticate_request and the pipeline end with.              *)
(***************************************************************************)
NoError == "none"
NoAuthenticationError == "NoAuthenticationError 401 Missing Authorization headers"
MalformedHeader == "AuthenticationError 400 Malformed Authorization header"
DestinationMismatch == "AuthenticationError 401 Destination mismatch in auth header"
FederationDeniedError == "FederationDeniedError"
KeyringError == "verify_json_for_server raised"
StoreError == "get_destination_retry_timings raised"
LimiterError == "ratelimit wait raised"
HandlerError == "handler raised"

\* auth.startswith(b"X-Matrix")
IsXMatrix(h) == h.scheme = "X-Matrix"

\* json_request["signatures"].setdefault(origin, {})[key] = sig, the map
\* held as a set of <<origin, key, sig>>.
SetSignature(signatures, origin, key, sig) ==
    {t \in signatures : ~(t[1] = origin /\ t[2] = key)} \cup {<<origin, key, sig>>}

\* LoopBody without the comparison of destination and server_name: the
\* fault C2 rules out.
LoopBodyNoDestinationCheck(st, p) ==
    IF ~p.ok
    THEN [st EXCEPT !.error = MalformedHeader]
    ELSE [error |-> NoError,
          origin |-> p.origin,
          signatures |-> SetSignature(st.signatures, p.origin, p.key, p.sig)]

\* LoopBody with origin assigned by the first recognised header only: the
\* fault C14 rules out.
LoopBodyKeepsFirstOrigin(st, p) ==
    IF ~p.ok
    THEN [st EXCEPT !.error = MalformedHeader]
    ELSE [error |-> IF p.destination # None /\ p.destination # server_name
                    THEN DestinationMismatch
                    ELSE NoError,
          origin |-> IF st.origin = None THEN p.origin ELSE st.origin,
          signatures |-> SetSignature(st.signatures, p.origin, p.key, p.sig)]

\* The body of the loop over auth_headers for one recognised header, parsed
\* as p, in state st = [error, origin, signatures].
LoopBody(st, p) ==
    IF ~p.ok
    THEN [st EXCEPT !.error = MalformedHeader]
    ELSE [error |-> IF p.destination # None /\ p.destination # server_name
                    THEN DestinationMismatch
                    ELSE NoError,
          origin |-> p.origin,
          signatures |-> SetSignature(st.signatures, p.origin, p.key, p.sig)]

\* for auth in auth_headers: ... , stopping at the first raise.
RECURSIVE HeaderLoop(_, _)
HeaderLoop(headers, st) ==
    IF headers = <<>> \/ st.error # NoError THEN st
    ELSE HeaderLoop(Tail(headers),
                    IF IsXMatrix(Head(headers))
                    THEN LoopBody(st, _parse_auth_header(Head(headers)))
                    ELSE st)

\* federation_domain_whitelist: None, or the domains federation is allowed
\* with.
NoWhitelist == [configured |-> FALSE, domains |-> {}]
WhitelistA == [configured |-> TRUE, domains |-> {OriginA}]

\* PolicyChecks without the allow-list check: the fault C1 rules out.
PolicyChecksNoAllowList(st, whitelist) ==
    IF st.origin = None \/ st.signatures = {}
    THEN [st EXCEPT !.error = NoAuthenticationError]
    ELSE st

\* The checks that follow the loop, on its result st: the allow-list check,
\* then the missing-credentials check.
PolicyChecks(st, whitelist) ==
    IF whitelist.configured /\ st.origin \notin whitelist.domains
    THEN [st EXCEPT !.error = FederationDeniedError]
    ELSE IF st.origin = None \/ st.signatures = {}
         THEN [st EXCEPT !.error = NoAuthenticationError]
         ELSE st

\* authenticate_request up to its first await: the error it raises, or
\* NoError when it goes on to call keyring.verify_json_for_server with the
\* origin and signatures given.
AuthenticateSync(headers, whitelist) ==
    IF headers = <<>>
    THEN [error |-> NoAuthenticationError, origin |-> None, signatures |-> {}]
    ELSE LET st == HeaderLoop(headers,
                              [error |-> NoError, origin |-> None, signatures |-> {}])
         IN  IF st.error # NoError THEN st ELSE PolicyChecks(st, whitelist)

(***************************************************************************)
(* The requests of a run and the configuration of the home server.         *)
(***************************************************************************)
Requests == {"r1", "r2"}

Param(k, v) == [k |-> k, eq |-> TRUE, v |-> v]
XMatrix(params) == [scheme |-> "X-Matrix", hasParams |-> TRUE, params |-> params]

\* X-Matrix origin=a,key=k,sig=s
HeaderA ==
    XMatrix(<<Param("origin", OriginA), Param("key", <<"k">>), Param("sig", <<"s">>)>>)
\* X-Matrix origin="a",key="j",sig="\s",destination="m"
HeaderAQuoted ==
    XMatrix(<<Param("origin", <<DQ, "a", DQ>>), Param("key", <<DQ, "j", DQ>>),
              Param("sig", <<DQ, BS, "s", DQ>>),
              Param("destination", <<DQ, "m", DQ>>)>>)
\* X-Matrix ORIGIN=b,Key=k,SIG=t
HeaderB ==
    XMatrix(<<Param("ORIGIN", OriginB), Param("Key", <<"k">>), Param("SIG", <<"t">>)>>)
\* X-Matrix origin=a,key=k,sig=s,destination=w
HeaderAWrongDest ==
    XMatrix(<<Param("origin", OriginA), Param("key", <<"k">>), Param("sig", <<"s">>),
              Param("destination", WrongServer)>>)
\* X-Matrix origin=b,key=k,sig=t,Destination="w"
HeaderBWrongDest ==
    XMatrix(<<Param("origin", OriginB), Param("key", <<"k">>), Param("sig", <<"t">>),
              Param("Destination", <<DQ, "w", DQ>>)>>)
\* X-Matrix key=k,sig=s,destination=w
HeaderNoOrigin ==
    XMatrix(<<Param("key", <<"k">>), Param("sig", <<"s">>),
              Param("destination", WrongServer)>>)
\* X-Matrix origin=a,key=k
HeaderNoSig == XMatrix(<<Param("origin", OriginA), Param("key", <<"k">>)>>)
\* X-Matrix origin=a,sig=s
HeaderNoKey == XMatrix(<<Param("origin", OriginA), Param("sig", <<"s">>)>>)
\* X-Matrix origin=a!,key=k,sig=s
HeaderBadName ==
    XMatrix(<<Param("origin", <<"a", "!">>), Param("key", <<"k">>), Param("sig", <<"s">>)>>)
\* X-Matrix origin
HeaderNoEquals == XMatrix(<<[k |-> "origin", eq |-> FALSE, v |-> <<>>]>>)
\* X-Matrix
HeaderNoParams == [scheme |-> "X-Matrix", hasParams |-> FALSE, params |-> <<>>]
\* Bearer token
HeaderBearer == [scheme |-> "Bearer", hasParams |-> TRUE, params |-> <<>>]

HeaderPool ==
    {HeaderA, HeaderAQuoted, HeaderB, HeaderAWrongDest, HeaderBWrongDest,
     HeaderNoOrigin, HeaderNoSig, HeaderNoKey, HeaderBadName, HeaderNoEquals,
     HeaderNoParams, HeaderBearer}

HeaderLists == UNION {[1..n -> HeaderPool] : n \in 0..MaxHeaders}

\* A row of the destinations table, as get_destination_retry_timings
\* returns it; present = FALSE stands for no row (None).
NoRecord == [present |-> FALSE, failure_ts |-> 0, retry_last_ts |-> 0, retry_interval |-> 0]
ZeroTimings == [present |-> TRUE, failure_ts |-> 0, retry_last_ts |-> 0, retry_interval |-> 0]
DownTimings == [present |-> TRUE, failure_ts |-> 5, retry_last_ts |-> 7, retry_interval |-> 3]

Origins == {OriginA, OriginB}

Absent ==
    [present |-> FALSE, headers |-> <<>>, REQUIRE_AUTH |-> TRUE, RATELIMIT |-> TRUE,
     traceCtx |-> FALSE]

\* One request with any list of header values: the parsing workload.
ParsingWorkloads ==
    {[request |-> [r \in Requests |->
                     IF r = "r1"
                     THEN [present |-> TRUE, headers |-> hs, REQUIRE_AUTH |-> ra,
                           RATELIMIT |-> TRUE, traceCtx |-> FALSE]
                     ELSE Absent],
      whitelist |-> wl, worker |-> FALSE, trace_whitelist |-> {},
      store |-> [o \in Origins |-> IF o = OriginA THEN DownTimings ELSE NoRecord]] :
        hs \in HeaderLists, ra \in BOOLEAN, wl \in {NoWhitelist, WhitelistA}}

\* One request with every choice of servlet flags and configuration.
PipelineWorkloads ==
    {[request |-> [r \in Requests |->
                     IF r = "r1"
                     THEN [present |-> TRUE, headers |-> hs, REQUIRE_AUTH |-> fl[1],
                           RATELIMIT |-> fl[2], traceCtx |-> fl[3]]
                     ELSE Absent],
      whitelist |-> cf[1], worker |-> cf[2], trace_whitelist |-> cf[3],
      store |-> [o \in Origins |-> IF o = OriginA THEN st ELSE DownTimings]] :
        hs \in {<<>>, <<HeaderBearer>>, <<HeaderA>>, <<HeaderB>>},
        fl \in BOOLEAN \X BOOLEAN \X BOOLEAN,
        cf \in {NoWhitelist, WhitelistA} \X BOOLEAN \X {{}, {OriginA}},
        st \in {NoRecord, ZeroTimings, DownTimings}}

\* Two requests that both authenticate, from the same origin or from two.
ConcurrentWorkloads ==
    {[request |-> [r \in Requests |->
                     IF r = "r1"
                     THEN [present |-> TRUE, headers |-> <<HeaderA>>, REQUIRE_AUTH |-> TRUE,
                           RATELIMIT |-> rl, traceCtx |-> FALSE]
                     ELSE [present |-> TRUE, headers |-> hs, REQUIRE_AUTH |-> TRUE,
                           RATELIMIT |-> TRUE, traceCtx |-> FALSE]],
      whitelist |-> NoWhitelist, worker |-> wk, trace_whitelist |-> {},
      store |-> [o \in Origins |-> IF o = OriginA THEN st ELSE NoRecord]] :
        hs \in {<<HeaderAQuoted>>, <<HeaderB>>}, rl \in BOOLEAN, wk \in BOOLEAN,
        st \in {NoRecord, DownTimings}}

Workloads == ParsingWorkloads \cup PipelineWorkloads \cup ConcurrentWorkloads

(***************************************************************************)
(* BaseFederationServlet.register.  A servlet is [PREFIX, PATH, handlers]: *)
(* handlers gives, for each of GET, PUT and POST, whether the servlet has  *)
(* no on_<METHOD>, one that is not cancellable, or one marked cancellable. *)
(***************************************************************************)
Servlets == {"PublicRooms", "SendTransaction"}
Methods == <<"GET", "PUT", "POST">>
HandlerKinds == {"missing", "plain", "cancellable"}

\* FEDERATION_V1_PREFIX, and the PATH of each servlet.
ServletPrefix == <<"/", "v", "1">>
ServletPath(name) == IF name = "PublicRooms" THEN <<"/", "p">> ELSE <<"/", "s">>

ServletWith(name, handlers) ==
    [PREFIX |-> ServletPrefix, PATH |-> ServletPath(name), handlers |-> handlers]

\* The servlets of the workloads that serve requests: registered at
\* start-up, none of their handlers cancellable.
ServingServlets ==
    [name \in Servlets |->
        ServletWith(name, [m \in {"GET", "PUT", "POST"} |->
                              IF name = "PublicRooms" /\ m = "PUT" THEN "missing"
                              ELSE "plain"])]

\* Every choice of handlers for the two servlets: the registration workload.
ServletChoices ==
    {[name \in Servlets |-> ServletWith(name, IF name = "PublicRooms" THEN h1 ELSE h2)] :
        h1 \in [{"GET", "PUT", "POST"} -> HandlerKinds],
        h2 \in [{"GET", "PUT", "POST"} -> HandlerKinds]}

\* The pattern without its anchors: the fault C20 rules out.
PatternUnanchored(desc) == desc.PREFIX \o desc.PATH

\* re.compile("^" + self.PREFIX + self.PATH + "$")
Pattern(desc) == <<"^">> \o desc.PREFIX \o desc.PATH \o <<"$">>

\* is_method_cancellable(code)
is_method_cancellable(code) == code = "cancellable"

\* server.register_paths(method, (pattern,), self._wrap(code), class name):
\* what the server holds for it.
Binding(name, desc, method) ==
    [method |-> method, pattern |-> Pattern(desc), servlet |-> name,
     callback |-> <<"new_func", name, method>>]

\* RegisterLoop without the test of is_method_cancellable: every handler
\* the servlet implements is wrapped and bound. The fault C11 rules out.
RECURSIVE RegisterLoopNoCancellableCheck(_, _, _, _)
RegisterLoopNoCancellableCheck(name, desc, methods, paths) ==
    IF methods = <<>> THEN [raised |-> FALSE, paths |-> paths]
    ELSE IF desc.handlers[Head(methods)] = "missing"
         THEN RegisterLoopNoCancellableCheck(name, desc, Tail(methods), paths)
         ELSE RegisterLoopNoCancellableCheck(name, desc, Tail(methods),
                                    paths \cup {Binding(name, desc, Head(methods))})

\* The loop of register over the methods left, with the paths registered
\* so far: the paths registered when it ends, and whether it raised.
RECURSIVE RegisterLoop(_, _, _, _)
RegisterLoop(name, desc, methods, paths) ==
    IF methods = <<>> THEN [raised |-> FALSE, paths |-> paths]
    ELSE LET code == desc.handlers[Head(methods)]
         IN  IF code = "missing"
             THEN RegisterLoop(name, desc, Tail(methods), paths)
             ELSE IF is_method_cancellable(code)
                  THEN [raised |-> TRUE, paths |-> paths]
                  ELSE RegisterLoop(name, desc, Tail(methods),
                                    paths \cup {Binding(name, desc, Head(methods))})

\* No request at all: the registration workload.
IdleWorkload ==
    [request |-> [r \in Requests |-> Absent],
     whitelist |-> NoWhitelist, worker |-> FALSE, trace_whitelist |-> {},
     store |-> [o \in Origins |-> NoRecord]]

(***************************************************************************)
(* The state.                                                              *)
(***************************************************************************)
VARIABLES
    servlet,                     \* the servlets: PREFIX, PATH and handlers
    server_paths,                \* what register_paths was called with
    registerOutcome,             \* how register ended for each servlet
    federation_domain_whitelist, \* Authenticator.federation_domain_whitelist
    replication_client,          \* TRUE on a worker (hs.config.worker.worker_app)
    trace_whitelist,             \* the origins whitelisted_homeserver accepts
    request,                     \* each request: its headers, its servlet's flags
    store,                       \* the retry timings of each destination
    pc,                          \* where each request's new_func is suspended
    origin,                      \* authenticate_request's local variable origin
    signatures,                  \* json_request["signatures"]
    requester,                   \* request.requester
    authOutcome,                 \* how authenticate_request ended
    keyringLog,                  \* the calls of keyring.verify_json_for_server, how each ended
    wrapOrigin,                  \* new_func's local variable origin
    disconnected,                \* request._disconnected
    error,                       \* the exception new_func ended with
    response,                    \* what new_func returned
    handlerLog,                  \* the origin argument of each call of func
    spans,                       \* the spans each request has entered, in order
    spanLog,                     \* the spans each request has exited, in order
    ratelimiter,                 \* requests inside ratelimit(origin), and admitted
    admitted,                    \* requests whose wait on the limiter has ended
    task,                        \* where each reset_retry_timings run stands
    taskLog                      \* the calls each reset_retry_timings run made

\* What the handling of a request leaves alone: the configuration, and what
\* start-up has registered.
configVars == <<federation_domain_whitelist, replication_client, trace_whitelist, request,
                servlet, server_paths, registerOutcome>>
authVars == <<origin, signatures, requester, authOutcome, keyringLog>>
wrapVars == <<pc, wrapOrigin, error, response, handlerLog, spans, spanLog,
              ratelimiter, admitted>>
taskVars == <<store, task, taskLog>>
vars == <<configVars, authVars, wrapVars, taskVars, disconnected>>

Pending == "pending"
Authenticated == "Authenticated"
ReturnedNone == "None"
ReturnedPair == "(code, object)"
Raised == "raised"

\* The state in which workload w starts.
Serving(w) ==
        /\ federation_domain_whitelist = w.whitelist
        /\ replication_client = w.worker
        /\ trace_whitelist = w.trace_whitelist
        /\ request = w.request
        /\ store = w.store
        /\ pc = [r \in Requests |-> "new"]
        /\ origin = [r \in Requests |-> None]
        /\ signatures = [r \in Requests |-> {}]
        /\ requester = [r \in Requests |-> None]
        /\ authOutcome = [r \in Requests |-> Pending]
        /\ keyringLog = [r \in Requests |-> <<>>]
        /\ wrapOrigin = [r \in Requests |-> None]
        /\ disconnected = [r \in Requests |-> FALSE]
        /\ error = [r \in Requests |-> NoError]
        /\ response = [r \in Requests |-> Pending]
        /\ handlerLog = [r \in Requests |-> <<>>]
        /\ spans = [r \in Requests |-> <<>>]
        /\ spanLog = [r \in Requests |-> <<>>]
        /\ ratelimiter = [entered |-> {}, holders |-> {}]
        /\ admitted = {}
        /\ task = [r \in Requests |-> "none"]
        /\ taskLog = [r \in Requests |-> <<>>]

\* Either the servlets are registered and requests arrive, or no request
\* arrives and the servlets are yet to be registered.
Init ==
    \/ /\ \E w \in Workloads : Serving(w)
       /\ servlet = ServingServlets
       /\ server_paths =
              UNION {RegisterLoop(name, ServingServlets[name], Methods, {}).paths :
                        name \in Servlets}
       /\ registerOutcome = [name \in Servlets |-> "registered"]
    \/ /\ Serving(IdleWorkload)
       /\ servlet \in ServletChoices
       /\ server_paths = {}
       /\ registerOutcome = [name \in Servlets |-> "new"]

(***************************************************************************)
(* The spans of new_func.                                                  *)
(***************************************************************************)
AuthSpan == [name |-> "authenticate_request", recording |-> TRUE]
LocalParentSpan == [name |-> "process-federation-request", recording |-> TRUE]

\* HasOriginSpanContext with whitelisted_homeserver left out: the context
\* of any authenticated origin is used. The fault C19 rules out.
HasOriginSpanContextAnyOrigin(r, o) == o # None /\ request[r].traceCtx

\* origin_span_context: whether a span context of the origin is used as
\* the parent.
HasOriginSpanContext(r, o) ==
    o # None /\ o \in trace_whitelist /\ request[r].traceCtx

\* remote_parent_span: a span under the origin's context, or the
\* non-recording span.
RemoteParentSpan(r, o) ==
    [name |-> "incoming-federation-request", recording |-> HasOriginSpanContext(r, o)]

RECURSIVE Reverse(_)
Reverse(s) == IF s = <<>> THEN <<>> ELSE Reverse(Tail(s)) \o <<Head(s)>>

\* Leaving "with remote_parent_span, local_parent_span": the names of the
\* entered spans in the order they are exited.
ExitOrder(entered) == Reverse([i \in 1..Len(entered) |-> entered[i].name])

(***************************************************************************)
(* FederationRateLimiter.ratelimit(origin), with room for one request of   *)
(* each origin at a time.                                                  *)
(***************************************************************************)
RatelimitEnter(rl, r) == [rl EXCEPT !.entered = @ \cup {r}]
RatelimitCanAdmit(rl, r) ==
    \A h \in rl.holders : wrapOrigin[h] # wrapOrigin[r]
RatelimitAdmit(rl, r) == [rl EXCEPT !.holders = @ \cup {r}]
RatelimitExit(rl, r) == [entered |-> rl.entered \ {r}, holders |-> rl.holders \ {r}]

(***************************************************************************)
(* new_func.                                                               *)
(***************************************************************************)

\* Reraises with REQUIRE_AUTH ignored: the fault C3 rules out.
ReraisesAlways(err, require_auth) == TRUE

\* Reraises with every error of authenticate_request handled as the
\* missing-credentials one is: the fault C4 rules out.
ReraisesUnlessOptional(err, require_auth) == require_auth

\* The except clauses around authenticate_request: TRUE when the error is
\* raised again, FALSE when new_func goes on with origin = None.
Reraises(err, require_auth) ==
    IF err = NoAuthenticationError THEN require_auth ELSE TRUE

\* IsRatelimited with the limiter never entered: the fault C8 rules out.
IsRatelimitedNever(r, o) == FALSE

\* IsRatelimited with the RATELIMIT flag of the servlet ignored: the fault
\* C18 rules out.
IsRatelimitedIgnoresFlag(r, o) == o # None

\* "if origin and self.RATELIMIT"
IsRatelimited(r, o) == o # None /\ request[r].RATELIMIT

\* FoundDisconnected with the check left out: the fault C9 rules out.
FoundDisconnectedNever(r) == FALSE

\* "if request._disconnected", read once the wait on the limiter has ended.
FoundDisconnected(r) == disconnected[r]

\* new_func ends with the exception authenticate_request raised: the
\* authenticate_request span is exited, nothing else was entered.
FailAuthentication(r, err) ==
    /\ pc' = [pc EXCEPT ![r] = "done"]
    /\ error' = [error EXCEPT ![r] = err]
    /\ response' = [response EXCEPT ![r] = Raised]
    /\ spans' = [spans EXCEPT ![r] = <<>>]
    /\ spanLog' = [spanLog EXCEPT ![r] = @ \o <<AuthSpan.name>>]
    /\ UNCHANGED <<wrapOrigin, handlerLog, ratelimiter, admitted>>

\* new_func from the end of authenticate_request, with origin o, to its
\* next await: the wait on the limiter, or the call of func.
EnterPipeline(r, o) ==
    /\ wrapOrigin' = [wrapOrigin EXCEPT ![r] = o]
    /\ spans' = [spans EXCEPT ![r] = <<RemoteParentSpan(r, o), LocalParentSpan>>]
    /\ spanLog' = [spanLog EXCEPT ![r] = @ \o <<AuthSpan.name>>]
    /\ IF IsRatelimited(r, o)
       THEN /\ ratelimiter' = RatelimitEnter(ratelimiter, r)
            /\ pc' = [pc EXCEPT ![r] = "ratelimit"]
            /\ UNCHANGED handlerLog
       ELSE /\ pc' = [pc EXCEPT ![r] = "handler"]
            /\ handlerLog' = [handlerLog EXCEPT ![r] = Append(@, o)]
            /\ UNCHANGED ratelimiter
    /\ UNCHANGED <<error, response, admitted>>

\* LeavePipeline with the limiter and the spans exited on a return only,
\* not on an exception: the fault C10 rules out.
LeavePipelineLeak(r, err, resp) ==
    /\ pc' = [pc EXCEPT ![r] = "done"]
    /\ error' = [error EXCEPT ![r] = err]
    /\ response' = [response EXCEPT ![r] = resp]
    /\ IF err = NoError
       THEN /\ spans' = [spans EXCEPT ![r] = <<>>]
            /\ spanLog' = [spanLog EXCEPT ![r] = @ \o ExitOrder(spans[r])]
            /\ ratelimiter' = RatelimitExit(ratelimiter, r)
       ELSE UNCHANGED <<spans, spanLog, ratelimiter>>
    /\ UNCHANGED wrapOrigin

\* new_func leaves its with blocks, by a return or by an exception: the
\* limiter's context manager and both spans are exited.
LeavePipeline(r, err, resp) ==
    /\ pc' = [pc EXCEPT ![r] = "done"]
    /\ error' = [error EXCEPT ![r] = err]
    /\ response' = [response EXCEPT ![r] = resp]
    /\ spans' = [spans EXCEPT ![r] = <<>>]
    /\ spanLog' = [spanLog EXCEPT ![r] = @ \o ExitOrder(spans[r])]
    /\ ratelimiter' = RatelimitExit(ratelimiter, r)
    /\ UNCHANGED wrapOrigin

\* A request arrives: new_func runs authenticate_request up to the call of
\* the keyring, or to the exception it raises, and after a
\* NoAuthenticationError it does not raise again, on to the call of func.
Receive(r) ==
    /\ pc[r] = "new"
    /\ request[r].present
    /\ LET res == AuthenticateSync(request[r].headers, federation_domain_whitelist)
       IN  /\ origin' = [origin EXCEPT ![r] = res.origin]
           /\ signatures' = [signatures EXCEPT ![r] = res.signatures]
           /\ IF res.error = NoError
              THEN /\ keyringLog' = [keyringLog EXCEPT ![r] =
                          Append(@, [origin |-> res.origin, signatures |-> res.signatures,
                                     result |-> Pending])]
                   /\ pc' = [pc EXCEPT ![r] = "verify"]
                   /\ spans' = [spans EXCEPT ![r] = <<AuthSpan>>]
                   /\ UNCHANGED <<authOutcome, wrapOrigin, error, response, handlerLog,
                                  spanLog, ratelimiter, admitted>>
              ELSE /\ authOutcome' = [authOutcome EXCEPT ![r] = res.error]
                   /\ UNCHANGED keyringLog
                   /\ IF Reraises(res.error, request[r].REQUIRE_AUTH)
                      THEN FailAuthentication(r, res.error)
                      ELSE EnterPipeline(r, None)
    /\ UNCHANGED <<configVars, requester, taskVars, disconnected>>

\* keyring.verify_json_for_server returns: request.requester is set and the
\* retry timings of the origin are asked for.
VerifyReturns(r) ==
    /\ pc[r] = "verify"
    /\ keyringLog' = [keyringLog EXCEPT ![r][Len(keyringLog[r])].result = "returned"]
    /\ requester' = [requester EXCEPT ![r] = origin[r]]
    /\ pc' = [pc EXCEPT ![r] = "get_timings"]
    /\ UNCHANGED <<configVars, origin, signatures, authOutcome, wrapOrigin,
                   error, response, handlerLog, spans, spanLog, ratelimiter, admitted,
                   taskVars, disconnected>>

\* VerifyRaises with the exception of the keyring swallowed and
\* authenticate_request going on: the fault C13 rules out.
VerifyRaisesSwallowed(r) ==
    /\ pc[r] = "verify"
    /\ keyringLog' = [keyringLog EXCEPT ![r][Len(keyringLog[r])].result = Raised]
    /\ requester' = [requester EXCEPT ![r] = origin[r]]
    /\ pc' = [pc EXCEPT ![r] = "get_timings"]
    /\ UNCHANGED <<configVars, origin, signatures, authOutcome, wrapOrigin,
                   error, response, handlerLog, spans, spanLog, ratelimiter, admitted,
                   taskVars, disconnected>>

\* keyring.verify_json_for_server raises.
VerifyRaises(r) ==
    /\ pc[r] = "verify"
    /\ keyringLog' = [keyringLog EXCEPT ![r][Len(keyringLog[r])].result = Raised]
    /\ authOutcome' = [authOutcome EXCEPT ![r] = KeyringError]
    /\ FailAuthentication(r, KeyringError)
    /\ UNCHANGED <<configVars, origin, signatures, requester, taskVars,
                   disconnected>>

\* ShouldReset testing only that the origin has a row: the fault C15 rules
\* out.
ShouldResetAnyRecord(retry_timings) == retry_timings.present

\* "if retry_timings and retry_timings.retry_last_ts"
ShouldReset(retry_timings) ==
    retry_timings.present /\ retry_timings.retry_last_ts # 0

\* run_in_background(self.reset_retry_timings, origin): the task runs to
\* its await of store.set_destination_retry_timings and the caller goes on.
StartReset(r) ==
    /\ task' = [task EXCEPT ![r] = "set_destination_retry_timings"]
    /\ taskLog' = [taskLog EXCEPT ![r] = Append(@, "set_destination_retry_timings")]

\* store.get_destination_retry_timings returns: reset_retry_timings is
\* started if the origin was marked as down, authenticate_request returns
\* the origin and new_func goes on.
TimingsReturn(r) ==
    /\ pc[r] = "get_timings"
    /\ IF ShouldReset(store[origin[r]])
       THEN StartReset(r)
       ELSE UNCHANGED <<task, taskLog>>
    /\ authOutcome' = [authOutcome EXCEPT ![r] = Authenticated]
    /\ EnterPipeline(r, origin[r])
    /\ UNCHANGED <<configVars, origin, signatures, requester, keyringLog, store,
                   disconnected>>

\* store.get_destination_retry_timings raises.
TimingsRaises(r) ==
    /\ pc[r] = "get_timings"
    /\ authOutcome' = [authOutcome EXCEPT ![r] = StoreError]
    /\ FailAuthentication(r, StoreError)
    /\ UNCHANGED <<configVars, origin, signatures, requester, keyringLog, taskVars,
                   disconnected>>

\* The wait on the limiter ends: new_func returns None if the client has
\* gone, and calls func otherwise.
Admit(r) ==
    /\ pc[r] = "ratelimit"
    /\ RatelimitCanAdmit(ratelimiter, r)
    /\ admitted' = admitted \cup {r}
    /\ IF FoundDisconnected(r)
       THEN /\ LeavePipeline(r, NoError, ReturnedNone)
            /\ UNCHANGED handlerLog
       ELSE /\ ratelimiter' = RatelimitAdmit(ratelimiter, r)
            /\ pc' = [pc EXCEPT ![r] = "handler"]
            /\ handlerLog' = [handlerLog EXCEPT ![r] = Append(@, wrapOrigin[r])]
            /\ UNCHANGED <<wrapOrigin, error, response, spans, spanLog>>
    /\ UNCHANGED <<configVars, authVars, taskVars, disconnected>>

\* The wait on the limiter raises.
RatelimitRaises(r) ==
    /\ pc[r] = "ratelimit"
    /\ LeavePipeline(r, LimiterError, Raised)
    /\ UNCHANGED <<configVars, authVars, handlerLog, admitted, taskVars, disconnected>>

\* func returns a (code, object) pair, or None.
HandlerReturns(r) ==
    /\ pc[r] = "handler"
    /\ \E resp \in {ReturnedPair, ReturnedNone} : LeavePipeline(r, NoError, resp)
    /\ UNCHANGED <<configVars, authVars, handlerLog, admitted, taskVars, disconnected>>

\* func raises.
HandlerRaises(r) ==
    /\ pc[r] = "handler"
    /\ LeavePipeline(r, HandlerError, Raised)
    /\ UNCHANGED <<configVars, authVars, handlerLog, admitted, taskVars, disconnected>>

\* The client of a request in flight goes away.
Disconnect(r) ==
    /\ pc[r] \notin {"new", "done"}
    /\ ~disconnected[r]
    /\ disconnected' = [disconnected EXCEPT ![r] = TRUE]
    /\ UNCHANGED <<configVars, authVars, wrapVars, taskVars>>

(***************************************************************************)
(* reset_retry_timings.                                                    *)
(***************************************************************************)
TaskOutcomes == {"ok", "store raises", "notify raises", "send raises"}

\* ResetCalls with the notifier left out: the fault C6 rules out.
ResetCallsNoNotify(outcome, worker) ==
    IF outcome = "ok" THEN <<>> ELSE <<"logger.exception">>

\* ResetCalls with the replication send made whether or not the process
\* is a worker: the fault C17 rules out.
ResetCallsSendsOnPrimary(outcome, worker) ==
    IF outcome = "store raises" THEN <<"logger.exception">>
    ELSE IF outcome = "notify raises"
         THEN <<"notify_remote_server_up", "logger.exception">>
         ELSE <<"notify_remote_server_up", "send_remote_server_up">>
              \o (IF outcome = "send raises" THEN <<"logger.exception">> ELSE <<>>)

\* The calls reset_retry_timings makes once the store has answered, by
\* what raises: the notifier, the replication client on a worker, and
\* logger.exception in the except clause.
ResetCalls(outcome, worker) ==
    IF outcome = "store raises" THEN <<"logger.exception">>
    ELSE IF outcome = "notify raises"
         THEN <<"notify_remote_server_up", "logger.exception">>
         ELSE <<"notify_remote_server_up">>
              \o (IF worker THEN <<"send_remote_server_up">> ELSE <<>>)
              \o (IF outcome = "send raises" THEN <<"logger.exception">> ELSE <<>>)

\* ExceptClause with the exception reaching the request that started the
\* task: the fault C7 rules out.
ExceptClausePropagates(r, raised) ==
    IF raised
    THEN /\ error' = [error EXCEPT ![r] = "reset_retry_timings raised"]
         /\ pc' = [pc EXCEPT ![r] = "done"]
         /\ UNCHANGED <<authVars, wrapOrigin, response, handlerLog, spans, spanLog,
                        ratelimiter, admitted>>
    ELSE UNCHANGED <<authVars, wrapVars>>

\* "except Exception: logger.exception(...)": what an exception in the task
\* does to the request that started it.
ExceptClause(r, raised) == UNCHANGED <<authVars, wrapVars>>

\* ResetRetryTimings with the store write clearing retry_last_ts only, the
\* failure time and the retry interval left as they were: the fault C16
\* rules out.
ResetRetryTimingsOnlyLastTs(r) ==
    /\ task[r] = "set_destination_retry_timings"
    /\ \E outcome \in TaskOutcomes :
        /\ outcome = "send raises" => replication_client
        /\ store' = IF outcome = "store raises" THEN store
                    ELSE [store EXCEPT ![origin[r]].retry_last_ts = 0]
        /\ taskLog' = [taskLog EXCEPT ![r] = @ \o ResetCalls(outcome, replication_client)]
        /\ ExceptClause(r, outcome # "ok")
    /\ task' = [task EXCEPT ![r] = "done"]
    /\ UNCHANGED <<configVars, disconnected>>

\* store.set_destination_retry_timings(origin, None, 0, 0) returns or
\* raises, and reset_retry_timings runs to its end.
ResetRetryTimings(r) ==
    /\ task[r] = "set_destination_retry_timings"
    /\ \E outcome \in TaskOutcomes :
        /\ outcome = "send raises" => replication_client
        /\ store' = IF outcome = "store raises" THEN store
                    ELSE [store EXCEPT ![origin[r]] = ZeroTimings]
        /\ taskLog' = [taskLog EXCEPT ![r] = @ \o ResetCalls(outcome, replication_client)]
        /\ ExceptClause(r, outcome # "ok")
    /\ task' = [task EXCEPT ![r] = "done"]
    /\ UNCHANGED <<configVars, disconnected>>

(***************************************************************************)
(* register.                                                               *)
(***************************************************************************)

\* servlet.register(server) runs: to its end, or to the exception it raises
\* for a handler marked cancellable.
Register(name) ==
    /\ registerOutcome[name] = "new"
    /\ LET res == RegisterLoop(name, servlet[name], Methods, {})
       IN  /\ server_paths' = server_paths \cup res.paths
           /\ registerOutcome' = [registerOutcome EXCEPT ![name] =
                                     IF res.raised THEN "raised" ELSE "registered"]
    /\ UNCHANGED <<federation_domain_whitelist, replication_client, trace_whitelist,
                   request, servlet, authVars, wrapVars, taskVars, disconnected>>

Next ==
    \/ \E name \in Servlets : Register(name)
    \/ \E r \in Requests :
        \/ Receive(r)
        \/ VerifyReturns(r)
        \/ VerifyRaises(r)
        \/ TimingsReturn(r)
        \/ TimingsRaises(r)
        \/ Admit(r)
        \/ RatelimitRaises(r)
        \/ HandlerReturns(r)
        \/ HandlerRaises(r)
        \/ Disconnect(r)
        \/ ResetRetryTimings(r)

Spec == Init /\ [][Next]_vars

\* The store answers every write it was sent, so a started
\* reset_retry_timings runs to its end.
FairSpec == Spec /\ \A r \in Requests : WF_vars(ResetRetryTimings(r))

(***************************************************************************)
(* The claims.                                                             *)
(***************************************************************************)
Count(log, what) == Cardinality({i \in 1..Len(log) : log[i] = what})

\* A recognised header that parses and declares a destination other than
\* the local server name.
DeclaresWrongDestination(h) ==
    /\ IsXMatrix(h)
    /\ ~ParseRaises(h)
    /\ ParamDestination(h.params) \notin {None, server_name}

\* A recognised header that does not parse.
IsMalformed(h) == IsXMatrix(h) /\ ParseRaises(h)

\* The error of the first header of the list that is malformed or declares
\* a wrong destination, NoError if there is none.
FirstHeaderError(headers) ==
    LET bad == {i \in 1..Len(headers) :
                    IsMalformed(headers[i]) \/ DeclaresWrongDestination(headers[i])}
        first == CHOOSE i \in bad : \A j \in bad : i <= j
    IN  IF bad = {} THEN NoError
        ELSE IF IsMalformed(headers[first]) THEN MalformedHeader
        ELSE DestinationMismatch

\* The allow-list is configured and the origin read from the headers of r
\* is not in it.
OriginNotAllowed(r) ==
    /\ pc[r] # "new"
    /\ federation_domain_whitelist.configured
    /\ origin[r] # None
    /\ origin[r] \notin federation_domain_whitelist.domains

\* C1 as stated: whenever the allow-list is configured and the observed
\* origin is not in it, authenticate_request fails with
\* FederationDeniedError and the keyring is never called.
C1_Original ==
    \A r \in Requests :
        OriginNotAllowed(r) =>
            authOutcome[r] = FederationDeniedError /\ keyringLog[r] = <<>>

\* C1, amended: whenever the allow-list is configured and the observed
\* origin is not in it, the keyring is never called, and
\* authenticate_request fails with FederationDeniedError unless a
\* recognised header is malformed or declares a wrong destination, in which
\* case it fails with the error of the first such header.
C1_Amended ==
    \A r \in Requests :
        OriginNotAllowed(r) =>
            /\ keyringLog[r] = <<>>
            /\ pc[r] = "done"
            /\ handlerLog[r] = <<>>
            /\ authOutcome[r] =
                  IF FirstHeaderError(request[r].headers) = NoError
                  THEN FederationDeniedError
                  ELSE FirstHeaderError(request[r].headers)

C1_Witness ==
    \E r \in Requests :
        /\ OriginNotAllowed(r)
        /\ origin[r] = OriginB
        /\ authOutcome[r] = FederationDeniedError
        /\ error[r] = FederationDeniedError

\* C2 as stated: whenever a recognised header declares a destination other
\* than the local server name, authenticate_request fails with the
\* destination-mismatch error and the keyring is never called.
C2_Original ==
    \A r \in Requests :
        (/\ pc[r] # "new"
         /\ \E i \in 1..Len(request[r].headers) :
                DeclaresWrongDestination(request[r].headers[i])) =>
            authOutcome[r] = DestinationMismatch /\ keyringLog[r] = <<>>

\* C2, amended: whenever a recognised header declares a destination other
\* than the local server name, the keyring is never called, and
\* authenticate_request fails with the destination-mismatch error unless a
\* recognised header before the first such header is malformed, in which
\* case it fails with the malformed-header error.
C2_Amended ==
    \A r \in Requests :
        (/\ pc[r] # "new"
         /\ \E i \in 1..Len(request[r].headers) :
                DeclaresWrongDestination(request[r].headers[i])) =>
            /\ keyringLog[r] = <<>>
            /\ authOutcome[r] = FirstHeaderError(request[r].headers)
            /\ authOutcome[r] \in {DestinationMismatch, MalformedHeader}
            /\ error[r] = authOutcome[r]

C2_Witness ==
    \E r \in Requests :
        /\ request[r].headers = <<HeaderA, HeaderBWrongDest>>
        /\ authOutcome[r] = DestinationMismatch
        /\ keyringLog[r] = <<>>
        /\ pc[r] = "done"

\* C3: a request without Authorization header is rejected with the
\* missing-credentials error and its handler is not called when
\* REQUIRE_AUTH is set, and its handler is called with origin None when
\* REQUIRE_AUTH is not set.
C3_NoHeader ==
    \A r \in Requests :
        (pc[r] # "new" /\ request[r].headers = <<>>) =>
            /\ authOutcome[r] = NoAuthenticationError
            /\ keyringLog[r] = <<>>
            /\ IF request[r].REQUIRE_AUTH
               THEN /\ pc[r] = "done"
                    /\ error[r] = NoAuthenticationError
                    /\ handlerLog[r] = <<>>
               ELSE /\ handlerLog[r] = <<None>>
                    /\ error[r] \in {NoError, HandlerError}

C3_Witness ==
    \E r \in Requests :
        /\ request[r].headers = <<>>
        /\ ~request[r].REQUIRE_AUTH
        /\ handlerLog[r] = <<None>>
        /\ pc[r] = "done"
        /\ response[r] = ReturnedPair

C5_Claim ==
    \A r \in Requests :
        (/\ pc[r] # "new"
         /\ request[r].headers # <<>>
         /\ \A i \in 1..Len(request[r].headers) : ~IsXMatrix(request[r].headers[i])) =>
            /\ authOutcome[r] = NoAuthenticationError
            /\ ~request[r].REQUIRE_AUTH => handlerLog[r] = <<None>>

\* The store write of the reset_retry_timings run of r raised.
StoreWriteRaised(r) ==
    taskLog[r] = <<"set_destination_retry_timings", "logger.exception">>

\* C6 as stated: once the reset_retry_timings run of a request is over, it
\* has called the store reset exactly once and notify_remote_server_up
\* exactly once.
C6_Original ==
    \A r \in Requests :
        task[r] = "done" =>
            /\ Count(taskLog[r], "set_destination_retry_timings") = 1
            /\ Count(taskLog[r], "notify_remote_server_up") = 1

\* C6, amended: when authenticate_request succeeds for an origin whose
\* stored retry_last_ts is not 0, it returns with the store reset called
\* once and not yet answered; the run then comes to its end, having called
\* the store reset exactly once and notify_remote_server_up exactly once if
\* the store write returned, and not at all if the store write raised.
C6_Amended ==
    /\ [](\A r \in Requests :
            /\ Count(taskLog[r], "set_destination_retry_timings") <= 1
            /\ task[r] = "done" =>
                /\ Count(taskLog[r], "set_destination_retry_timings") = 1
                /\ Count(taskLog[r], "notify_remote_server_up") =
                      IF StoreWriteRaised(r) THEN 0 ELSE 1)
    /\ [][\A r \in Requests :
            (/\ authOutcome[r] = Pending
             /\ authOutcome'[r] = Authenticated
             /\ ShouldReset(store[origin[r]])) =>
                /\ task'[r] = "set_destination_retry_timings"
                /\ taskLog'[r] = <<"set_destination_retry_timings">>
                /\ store' = store
                /\ wrapOrigin'[r] = origin[r]]_vars
    /\ \A r \in Requests :
            (task[r] = "set_destination_retry_timings") ~> (task[r] = "done")

C6_Witness ==
    \E r \in Requests :
        /\ authOutcome[r] = Authenticated
        /\ task[r] = "done"
        /\ taskLog[r] = <<"set_destination_retry_timings", "notify_remote_server_up">>
        /\ store[origin[r]] = ZeroTimings

\* C7: a reset_retry_timings run that ends with an exception logs it and
\* leaves the request that started it as it was: authenticated, with the
\* same position in new_func, the same error and the same response.
C7_TaskFailureContained ==
    [][\A r \in Requests :
        (/\ task[r] # "done"
         /\ task'[r] = "done"
         /\ taskLog'[r][Len(taskLog'[r])] = "logger.exception") =>
            /\ authOutcome'[r] = Authenticated
            /\ requester'[r] = origin[r]
            /\ pc'[r] = pc[r]
            /\ error'[r] = error[r]
            /\ response'[r] = response[r]
            /\ handlerLog'[r] = handlerLog[r]
            /\ wrapOrigin'[r] = origin[r]]_vars

C7_Witness ==
    \E r \in Requests :
        /\ task[r] = "done"
        /\ taskLog[r][Len(taskLog[r])] = "logger.exception"
        /\ authOutcome[r] = Authenticated
        /\ pc[r] = "done"
        /\ handlerLog[r] = <<origin[r]>>
        /\ response[r] = ReturnedPair

\* Requests r1 and r2 are authenticated requests of one origin on
\* endpoints with RATELIMIT set.
SameOriginRatelimited(r1, r2) ==
    /\ r1 # r2
    /\ wrapOrigin[r1] # None
    /\ wrapOrigin[r1] = wrapOrigin[r2]
    /\ request[r1].RATELIMIT
    /\ request[r2].RATELIMIT

\* C8: of two authenticated requests of one origin on endpoints with
\* RATELIMIT set, the handler of one is not running while the other holds
\* the limiter's slot, and a running handler holds the slot.
C8_OneHandlerPerOrigin ==
    \A r1, r2 \in Requests :
        SameOriginRatelimited(r1, r2) =>
            /\ pc[r1] = "handler" => r1 \in ratelimiter.holders
            /\ r1 \in ratelimiter.holders => pc[r2] # "handler"
            /\ handlerLog[r2] # <<>> => r2 \in admitted

C8_Witness ==
    \E r1, r2 \in Requests :
        /\ SameOriginRatelimited(r1, r2)
        /\ r1 \in admitted
        /\ pc[r1] = "done"
        /\ handlerLog[r1] # <<>>
        /\ pc[r2] = "handler"
        /\ r2 \in ratelimiter.holders

\* C9: when the wait on the limiter ends for a request whose client has
\* gone, new_func ends there returning None, without error and without
\* having called the handler.
C9_DisconnectedEarlyReturn ==
    [][\A r \in Requests :
        (r \notin admitted /\ r \in admitted' /\ disconnected[r]) =>
            /\ pc'[r] = "done"
            /\ response'[r] = ReturnedNone
            /\ error'[r] = NoError
            /\ handlerLog'[r] = <<>>]_vars

C9_Witness ==
    \E r \in Requests :
        /\ r \in admitted
        /\ disconnected[r]
        /\ pc[r] = "done"
        /\ response[r] = ReturnedNone
        /\ handlerLog[r] = <<>>

\* C10: a request that has left new_func is no longer inside the limiter
\* and has no open span; it has exited every span it entered, the
\* local-processing span before the remote-parent span; and only requests
\* waiting on the limiter or running the handler are inside the limiter.
C10_ResourcesReleased ==
    \A r \in Requests :
        /\ r \in ratelimiter.entered => pc[r] \in {"ratelimit", "handler"}
        /\ r \in ratelimiter.holders => pc[r] = "handler"
        /\ pc[r] = "done" =>
            /\ spans[r] = <<>>
            /\ spanLog[r] =
                  IF authOutcome[r] \in {Authenticated, NoAuthenticationError}
                     /\ error[r] # NoAuthenticationError
                  THEN <<"authenticate_request", "process-federation-request",
                         "incoming-federation-request">>
                  ELSE <<"authenticate_request">>

C10_Witness ==
    \E r \in Requests :
        /\ pc[r] = "done"
        /\ r \in admitted
        /\ error[r] = HandlerError
        /\ r \notin ratelimiter.entered
        /\ spanLog[r] = <<"authenticate_request", "process-federation-request",
                          "incoming-federation-request">>

\* ---------------------------------------------------------------------------
\* C11: register raises, at registration time, whenever one of the on_GET,
\* on_PUT, on_POST handlers the servlet implements is marked cancellable, and
\* a cancellable handler is never bound to a path of the server.
C11_CancellableFailsAtRegistration ==
    \A name \in Servlets :
        /\ ( /\ registerOutcome[name] # "new"
             /\ \E m \in {"GET", "PUT", "POST"} :
                    servlet[name].handlers[m] = "cancellable" )
           => registerOutcome[name] = Raised
        /\ \A b \in server_paths :
              b.servlet = name => servlet[name].handlers[b.method] = "plain"

\* A servlet whose on_GET is plain and whose on_POST is cancellable was
\* registered: register raised and on_POST is not bound.
C11_Witness ==
    /\ servlet["SendTransaction"].handlers["GET"] = "plain"
    /\ servlet["SendTransaction"].handlers["POST"] = "cancellable"
    /\ registerOutcome["SendTransaction"] = Raised
    /\ \A b \in server_paths :
          ~(b.servlet = "SendTransaction" /\ b.method = "POST")

\* ---------------------------------------------------------------------------
\* A header of the recognised scheme without a parameter list, or without a
\* parameter named origin, key or sig (names compared in lower case).
LacksParameter(h) ==
    /\ IsXMatrix(h)
    /\ \/ ~h.hasParams
       \/ \E name \in {"origin", "key", "sig"} :
             \A i \in 1..Len(h.params) :
                ~(h.params[i].eq /\ Lower(h.params[i].k) = name)

\* The headers of r hold a recognised header that lacks a parameter, and
\* the loop over the headers reaches it: no header before it declares a
\* destination other than this server.
ReachesHeaderLackingParameter(r) ==
    /\ request[r].present
    /\ \E i \in 1..Len(request[r].headers) :
          /\ LacksParameter(request[r].headers[i])
          /\ \A j \in 1..(i - 1) : ~DeclaresWrongDestination(request[r].headers[j])

\* C12: a header of the recognised scheme that lacks origin, key or sig, or
\* has no parameter list, makes _parse_auth_header fail with the
\* AuthenticationError 400 "Malformed Authorization header" and with nothing
\* else: authenticate_request ends with that error for the request, the
\* keyring is not called and the handler is not run.
C12_MissingParameterIsMalformed ==
    \A r \in Requests :
        (pc[r] # "new" /\ ReachesHeaderLackingParameter(r)) =>
            /\ authOutcome[r] = MalformedHeader
            /\ error[r] = MalformedHeader
            /\ keyringLog[r] = <<>>
            /\ handlerLog[r] = <<>>

\* A request whose second header has no sig, after a first one that parses,
\* has been refused as malformed.
C12_Witness ==
    /\ request["r1"].present
    /\ request["r1"].headers = <<HeaderA, HeaderNoSig>>
    /\ pc["r1"] = "done"
    /\ authOutcome["r1"] = MalformedHeader

\* ---------------------------------------------------------------------------
\* The keyring was called once for request r, for origin o and the
\* signatures collected from the headers of r, and the call has returned.
VerifiedFor(r, o) ==
    /\ Len(keyringLog[r]) = 1
    /\ keyringLog[r][1].origin = o
    /\ keyringLog[r][1].signatures = signatures[r]
    /\ keyringLog[r][1].result = "returned"

\* C13: whenever the handler has been called with an origin other than None,
\* and whenever request.requester is set, the call of the keyring for that
\* origin and the signatures of this request has already returned without
\* raising; an origin only claimed in a header never reaches the handler.
C13_HandlerOriginVerified ==
    \A r \in Requests :
        /\ requester[r] # None => VerifiedFor(r, requester[r])
        /\ \A i \in 1..Len(handlerLog[r]) :
              handlerLog[r][i] # None => VerifiedFor(r, handlerLog[r][i])
        /\ (wrapOrigin[r] # None /\ pc[r] # "new") => VerifiedFor(r, wrapOrigin[r])

\* The handler of a request has been called with origin a, verified.
C13_Witness ==
    /\ handlerLog["r1"] = <<OriginA>>
    /\ requester["r1"] = OriginA
    /\ keyringLog["r1"][1].result = "returned"

\* ---------------------------------------------------------------------------
\* The positions of the recognised headers of a list, and the origin the
\* last of them declares (None when the list has none).
RecognisedAt(headers) == {i \in 1..Len(headers) : IsXMatrix(headers[i])}

LastDeclaredOrigin(headers) ==
    IF RecognisedAt(headers) = {} THEN None
    ELSE LET last == CHOOSE i \in RecognisedAt(headers) :
                        \A j \in RecognisedAt(headers) : j <= i
         IN  _parse_auth_header(headers[last]).origin

\* signatures[origin][keyId] = sig for every recognised header of the list,
\* a later header winning over an earlier one with the same origin and key.
AccumulatedSignatures(headers) ==
    {<<_parse_auth_header(headers[i]).origin, _parse_auth_header(headers[i]).key,
       _parse_auth_header(headers[i]).sig>> :
        i \in {i \in RecognisedAt(headers) :
                 \A j \in RecognisedAt(headers) :
                    ( /\ j > i
                      /\ _parse_auth_header(headers[j]).origin
                            = _parse_auth_header(headers[i]).origin )
                    => _parse_auth_header(headers[j]).key
                            # _parse_auth_header(headers[i]).key}}

\* C14: when every recognised header of a request parses and none declares
\* another destination, each contributes signatures[origin][keyId] = sig
\* under the origin it declares; the allow-list check and the one call of
\* the keyring are made for the origin of the last recognised header, and
\* that origin is the one returned on success.
C14_LastOriginDecides ==
    \A r \in Requests :
        ( /\ pc[r] # "new"
          /\ request[r].present
          /\ FirstHeaderError(request[r].headers) = NoError ) =>
            LET headers == request[r].headers
                last == LastDeclaredOrigin(headers)
            IN  /\ origin[r] = last
                /\ headers # <<>> => signatures[r] = AccumulatedSignatures(headers)
                /\ (headers # <<>> /\ federation_domain_whitelist.configured)
                      => ( authOutcome[r] = FederationDeniedError
                             <=> last \notin federation_domain_whitelist.domains )
                /\ Len(keyringLog[r]) <= 1
                /\ \A i \in 1..Len(keyringLog[r]) :
                      /\ keyringLog[r][i].origin = last
                      /\ keyringLog[r][i].signatures = AccumulatedSignatures(headers)
                /\ authOutcome[r] = Authenticated => wrapOrigin[r] = last

\* A request with a header of b followed by a header of a passed the
\* allow-list that holds a only and was authenticated as a, with the
\* signatures of both origins in the payload.
C14_Witness ==
    /\ request["r1"].present
    /\ request["r1"].headers = <<HeaderB, HeaderAQuoted>>
    /\ federation_domain_whitelist = WhitelistA
    /\ authOutcome["r1"] = Authenticated
    /\ wrapOrigin["r1"] = OriginA
    /\ keyringLog["r1"][1].signatures
          = {<<OriginB, <<"k">>, <<"t">>>>, <<OriginA, <<"j">>, <<"s">>>>}

\* ---------------------------------------------------------------------------
\* C15: reset_retry_timings is started for a request only in the step that
\* ends its authentication with success, after the keyring has returned,
\* and only when the row read for the origin exists with retry_last_ts # 0.
\* A request that fails authentication, or whose origin has no row or a row
\* with retry_last_ts = 0, starts no task: it makes no call of the store's
\* set_destination_retry_timings, of the notifier or of the replication
\* client, and the stored timings change only in a step of a started task.
C15_RepairOnlyWhenMarkedDown ==
    /\ [](\A r \in Requests :
            /\ task[r] = "none" => taskLog[r] = <<>>
            /\ authOutcome[r] \notin {Pending, Authenticated} => task[r] = "none")
    /\ [][ /\ \A r \in Requests :
                (task[r] = "none" /\ task'[r] # "none") =>
                    /\ authOutcome[r] = Pending
                    /\ authOutcome'[r] = Authenticated
                    /\ Len(keyringLog[r]) = 1
                    /\ keyringLog[r][1].result = "returned"
                    /\ keyringLog[r][1].origin = origin[r]
                    /\ store[origin[r]].present
                    /\ store[origin[r]].retry_last_ts # 0
           /\ store' # store =>
                \E r \in Requests : task[r] # "none" /\ taskLog'[r] # taskLog[r]
         ]_vars

\* A request was authenticated as a, whose row has retry_last_ts = 0, and
\* has ended; no task was started and the row is as it was.
C15_Witness ==
    /\ authOutcome["r1"] = Authenticated
    /\ origin["r1"] = OriginA
    /\ pc["r1"] = "done"
    /\ \A r \in Requests : task[r] = "none" /\ taskLog[r] = <<>>
    /\ store[OriginA] = ZeroTimings

\* ---------------------------------------------------------------------------
\* The requests whose reset_retry_timings run for origin o has been started.
StartedFor(o) == {r \in Requests : task[r] # "none" /\ origin[r] = o}

\* C16: with requests of the same origin authenticated concurrently, once
\* every reset_retry_timings run started for the origin is over and none
\* had its store write raise, the row of the origin holds retry_last_ts = 0,
\* retry_interval = 0 and no failure time.  Each request that read a row
\* with retry_last_ts # 0 starts a run of its own, and each run resets and
\* notifies at most once.
C16_ConcurrentResetsConverge ==
    /\ [](\A o \in Origins :
            ( /\ StartedFor(o) # {}
              /\ \A r \in StartedFor(o) : task[r] = "done" /\ ~StoreWriteRaised(r) )
            => /\ store[o].present
               /\ store[o].retry_last_ts = 0
               /\ store[o].retry_interval = 0
               /\ store[o].failure_ts = 0)
    /\ [](\A r \in Requests :
            /\ Count(taskLog[r], "set_destination_retry_timings") <= 1
            /\ Count(taskLog[r], "notify_remote_server_up") <= 1)
    /\ [][\A r \in Requests :
            ( /\ authOutcome[r] = Pending
              /\ authOutcome'[r] = Authenticated
              /\ store[origin[r]].present
              /\ store[origin[r]].retry_last_ts # 0 )
            => /\ task[r] = "none"
               /\ task'[r] = "set_destination_retry_timings"
               /\ \A q \in Requests \ {r} : task'[q] = task[q]]_vars

\* Two requests of origin a both read the row marked down: each started a
\* run, both runs reset the row and notified, and the row is in the zero
\* state.
C16_Witness ==
    /\ origin["r1"] = OriginA
    /\ origin["r2"] = OriginA
    /\ \A r \in Requests :
          /\ task[r] = "done"
          /\ Count(taskLog[r], "notify_remote_server_up") = 1
    /\ store[OriginA].retry_last_ts = 0

\* ---------------------------------------------------------------------------
\* C17: a run of reset_retry_timings calls the store reset first, then
\* notify_remote_server_up, then send_remote_server_up.  The notifier is
\* called only once the store reset has returned, with the row of the
\* origin reset; the replication send is made only on a worker
\* (replication_client set) and only after the notifier was called; a
\* process that is not a worker never sends.
C17_ResetThenNotifyThenSend ==
    /\ [](\A r \in Requests : \A i \in 1..Len(taskLog[r]) :
            /\ taskLog[r][i] = "set_destination_retry_timings" => i = 1
            /\ taskLog[r][i] = "notify_remote_server_up" =>
                  i = 2 /\ taskLog[r][1] = "set_destination_retry_timings"
            /\ taskLog[r][i] = "send_remote_server_up" =>
                  /\ i = 3
                  /\ taskLog[r][2] = "notify_remote_server_up"
                  /\ replication_client)
    /\ [][\A r \in Requests :
            ( Count(taskLog'[r], "notify_remote_server_up")
                > Count(taskLog[r], "notify_remote_server_up") )
            => /\ task[r] = "set_destination_retry_timings"
               /\ store'[origin[r]].present
               /\ store'[origin[r]].retry_last_ts = 0
               /\ store'[origin[r]].retry_interval = 0]_vars

\* On a worker a run reset the store, notified and sent the replication
\* event, in that order.
C17_Witness ==
    /\ replication_client
    /\ taskLog["r1"] = <<"set_destination_retry_timings", "notify_remote_server_up",
                         "send_remote_server_up">>
    /\ task["r1"] = "done"

\* ---------------------------------------------------------------------------
\* The origin new_func holds for r is present and the servlet of r has
\* RATELIMIT set.
OriginAndRatelimit(r) == wrapOrigin[r] # None /\ request[r].RATELIMIT

\* C18: new_func enters ratelimiter.ratelimit(origin), and reads
\* request._disconnected once admitted, exactly when the origin is present
\* and RATELIMIT is true.  With origin None or RATELIMIT false it calls the
\* handler at once, the limiter not entered and request._disconnected not
\* read, also when the client has already gone.
C18_LimiterIffOriginAndFlag ==
    /\ [](\A r \in Requests :
            /\ (r \in ratelimiter.entered \cup ratelimiter.holders \cup admitted)
                  => OriginAndRatelimit(r)
            /\ pc[r] = "ratelimit" => r \in ratelimiter.entered
            /\ (handlerLog[r] # <<>> /\ OriginAndRatelimit(r))
                  => r \in admitted
            /\ (handlerLog[r] # <<>> /\ ~OriginAndRatelimit(r))
                  => r \notin admitted /\ handlerLog[r] = <<wrapOrigin[r]>>)
    /\ [][\A r \in Requests :
            (Len(spans[r]) <= 1 /\ Len(spans'[r]) = 2) =>
                IF wrapOrigin'[r] # None /\ request[r].RATELIMIT
                THEN /\ r \in ratelimiter'.entered
                     /\ pc'[r] = "ratelimit"
                     /\ handlerLog'[r] = <<>>
                ELSE /\ ratelimiter' = ratelimiter
                     /\ pc'[r] = "handler"
                     /\ handlerLog'[r] = <<wrapOrigin'[r]>>]_vars

\* The handler of a servlet with RATELIMIT false runs for an authenticated
\* request whose client has gone, the limiter never entered.
C18_Witness ==
    /\ ~request["r1"].RATELIMIT
    /\ wrapOrigin["r1"] = OriginA
    /\ disconnected["r1"]
    /\ pc["r1"] = "handler"
    /\ handlerLog["r1"] = <<OriginA>>
    /\ "r1" \notin admitted

\* ---------------------------------------------------------------------------
\* C19: while new_func is inside "with remote_parent_span,
\* local_parent_span" it has entered exactly two spans.  The second is the
\* recording process-federation-request span; the first records, as the
\* incoming-federation-request span under the origin's context, exactly
\* when the origin is present, is whitelisted for tracing and the request
\* carries a span context, and is the non-recording span otherwise.
C19_RemoteParentSpanIff ==
    \A r \in Requests :
        pc[r] \in {"ratelimit", "handler"} =>
            /\ Len(spans[r]) = 2
            /\ spans[r][2].name = "process-federation-request"
            /\ spans[r][2].recording
            /\ spans[r][1].name # spans[r][2].name
            /\ spans[r][1].recording <=>
                  ( /\ wrapOrigin[r] # None
                    /\ wrapOrigin[r] \in trace_whitelist
                    /\ request[r].traceCtx )

\* The handler runs under a recording remote-parent span: the origin is
\* whitelisted for tracing and sent a span context.
C19_Witness ==
    /\ pc["r1"] = "handler"
    /\ wrapOrigin["r1"] = OriginA
    /\ OriginA \in trace_whitelist
    /\ request["r1"].traceCtx
    /\ Len(spans["r1"]) = 2
    /\ spans["r1"][1].recording

\* ---------------------------------------------------------------------------
\* What the server holds for method m of servlet name once register has
\* bound it: the method, the anchored pattern, the wrapped handler and the
\* name of the servlet.
ExpectedBinding(name, m) ==
    [method |-> m,
     pattern |-> <<"^">> \o servlet[name].PREFIX \o servlet[name].PATH \o <<"$">>,
     servlet |-> name,
     callback |-> <<"new_func", name, m>>]

\* What the server holds for servlet name.
BoundFor(name) == {b \in server_paths : b.servlet = name}

\* The methods servlet name implements.
Implemented(name) ==
    {m \in {"GET", "PUT", "POST"} : servlet[name].handlers[m] # "missing"}

\* The methods servlet name implements that come, in the order GET, PUT,
\* POST, before its first cancellable handler (all of them if it has none).
ImplementedBeforeCancellable(name) ==
    {Methods[i] : i \in {i \in 1..Len(Methods) :
        /\ servlet[name].handlers[Methods[i]] # "missing"
        /\ \A j \in 1..i : servlet[name].handlers[Methods[j]] # "cancellable"}}

\* C20 as stated: register is all-or-nothing.  When it succeeds it has bound
\* exactly the methods the servlet implements, each under the anchored
\* pattern to the wrapped handler; when it raises for a cancellable handler
\* no path of the servlet is bound.
C20_Original ==
    \A name \in Servlets :
        /\ registerOutcome[name] = "registered" =>
              BoundFor(name) = {ExpectedBinding(name, m) : m \in Implemented(name)}
        /\ registerOutcome[name] = Raised => BoundFor(name) = {}

\* C20, amended: when register succeeds it has bound exactly the methods
\* the servlet implements, each under the anchored pattern to the wrapped
\* handler; when it raises for a cancellable handler, the implemented
\* methods that come before that handler in the order GET, PUT, POST are
\* bound, under the same pattern, and no other method of the servlet is.
C20_Amended ==
    \A name \in Servlets :
        /\ registerOutcome[name] = "registered" =>
              BoundFor(name) = {ExpectedBinding(name, m) : m \in Implemented(name)}
        /\ registerOutcome[name] = Raised =>
              BoundFor(name) =
                  {ExpectedBinding(name, m) : m \in ImplementedBeforeCancellable(name)}
        /\ registerOutcome[name] = "new" => BoundFor(name) = {}

\* register raised for a cancellable on_PUT after it had bound on_GET.
C20_Witness ==
    /\ servlet["SendTransaction"].handlers =
          [m \in {"GET", "PUT", "POST"} |->
              IF m = "GET" THEN "plain" ELSE IF m = "PUT" THEN "cancellable" ELSE "plain"]
    /\ registerOutcome["SendTransaction"] = Raised
    /\ BoundFor("SendTransaction") = {ExpectedBinding("SendTransaction", "GET")}

====
